---- MODULE Spec2Model ----
(***************************************************************************)
(* The asynchronous batch job engine of vibe-cv: internal/batch/queue.go   *)
(* (JobQueue, its worker loops and ProcessJob) over the batch_jobs and     *)
(* batch_job_items tables of internal/db/models.go.                        *)
(*                                                                         *)
(* Every store call is one atomic step that either succeeds or returns an  *)
(* error.  The sections of queue.go that hold q.mu for writing contain one *)
(* store call and, in ProcessJob, one read of q.provider, which only       *)
(* changes under q.mu; such a section is one step, enabled when no reader  *)
(* holds q.mu.  GetBatchJobStatus holds the read lock across two store     *)
(* reads, so it is two steps and `rlock` names the readers in between.     *)
(*                                                                         *)
(* The token-bucket RateLimiter of internal/security/middleware.go stands  *)
(* beside the queue.  Allow runs under rl.mu from its first statement to   *)
(* its return, so one Allow call is one step.  Time is counted in ticks of *)
(* one hour, the retention window rl.cleanup, tokens in units of 1/Unit    *)
(* token and rl.rps in units per tick, so that the refill                  *)
(* tokens + elapsed * rps is exact.                                        *)
(***************************************************************************)
EXTENDS Integers, Sequences, FiniteSets, TLC

\* ---- bounds of the model ----
MaxWorkers == 2     \* NewJobQueue(repo, workers): workers is drawn from 1..MaxWorkers
MaxJobs == 2        \* rows the batch_jobs table may hold
MaxItems == 2       \* rows the batch_job_items table may hold
MaxTotal == 1       \* CreateJob(identityID, totalItems): totalItems is drawn from 1..MaxTotal
ChanCap == 1        \* capacity of jobChan (queue.go:29 makes it 100)
CountCap == 2       \* the history counters stop counting here: 0, 1, more
OneJob == 1         \* jobs submitted in the runs with a direct caller or a poller
MaxRate == 2        \* NewRateLimiter(rps, burst): rps is drawn from 1..MaxRate units per tick
MaxBurst == 2       \* and burst from 1..MaxBurst tokens
Unit == 2           \* token units in one token: bucket.tokens is counted in halves
MaxTime == 3        \* the clock runs from 0 to MaxTime ticks
MaxCallers == 2     \* goroutines calling Allow
MaxLog == 5         \* Allow calls in a run
cleanup == 1        \* rl.cleanup, 1 * time.Hour: a clock tick is one hour

Workers == 1..MaxWorkers
Direct == {MaxWorkers + 1}    \* a goroutine that calls ProcessJob itself
Readers == {MaxWorkers + 2}   \* a goroutine that calls GetBatchJobStatus
Procs == Workers \cup Direct
JobIds == 1..MaxJobs
ItemIds == 1..MaxItems

Rates == 1..MaxRate
Bursts == 1..MaxBurst
Clients == {"10.0.0.1", "10.0.0.2"}   \* the ip argument of Allow
Callers == 1..MaxCallers
NoClient == ""

NoProvider == "nil"           \* the zero value of q.provider
Providers == {NoProvider, "llm"}
NoCV == 0                     \* item.CVID == nil
CVIds == {NoCV, 1}
Terminal == {"completed", "failed"}

VARIABLES
    workers,        \* q.workers
    provider,       \* q.provider
    started,        \* Start() has launched the worker loops
    stopped,        \* q.stopChan is closed
    jobChan,        \* q.jobChan: the buffered ids, oldest first
    rlock,          \* the readers holding q.mu.RLock()
    crashed,        \* a goroutine panicked: the process is gone
    jobs,           \* table batch_jobs, indexed by id
    items,          \* table batch_job_items, indexed by id
    pc,             \* where each goroutine stands
    jobID,          \* ProcessJob's jobID argument, per goroutine
    snap,           \* ProcessJob's local `items`: ids in the order fetched
    idx,            \* position of the range loop in snap (1-based)
    completedCount, \* ProcessJob's local completedCount
    outstanding,    \* provider.Customize calls issued and not yet returned, per goroutine
    createRet,      \* what the last CreateJob returned
    processRet,     \* what the last direct ProcessJob returned
    rjob,           \* GetBatchJobStatus's local `job`
    statusRet,      \* what the last GetBatchJobStatus returned
    \* ---- history of the run, read only by the properties ----
    sendCount,      \* per job id: sends on jobChan
    recvCount,      \* per job id: receives from jobChan
    dropped,        \* job ids CreateJob could not put on a full jobChan
    directCalled,   \* job ids ProcessJob was called on directly
    itemWrites,     \* per item: UpdateBatchJobItem calls issued
    itemLookups,    \* per item: GetCV calls issued
    itemCalls,      \* per item: provider.Customize calls issued
    faulted,        \* items whose CV lookup or provider call returned an error
    fetched,        \* per job id: the item ids a GetBatchJobItems of ProcessJob returned
    fetchCount,     \* per job id: successful GetBatchJobItems calls of ProcessJob
    storeErr,       \* job ids for which a store call of ProcessJob returned an error
    stuck,          \* job ids whose write of a terminal status returned an error
    \* ---- the rate limiter (internal/security/middleware.go) ----
    rps,            \* rl.rps, in token units per clock tick
    burst,          \* rl.burst, in tokens
    buckets,        \* rl.buckets: client -> [tokens, lastRefill]
    lastGC,         \* rl.lastGC
    now,            \* the clock time.Now() reads, in ticks
    mu,             \* the caller holding rl.mu, 0 when it is free
    callers,        \* the goroutines calling Allow: where each stands, its ip, its locals
    allowLog        \* history, per client: the Allow calls in the order they held rl.mu

progVars == <<workers, provider, started, stopped, jobChan, rlock, crashed, jobs, items>>
procVars == <<pc, jobID, snap, idx, completedCount, outstanding>>
retVars == <<createRet, processRet, rjob, statusRet>>
chanHist == <<sendCount, recvCount, dropped, directCalled>>
itemHist == <<itemWrites, itemLookups, itemCalls, faulted>>
storeHist == <<fetched, fetchCount, storeErr, stuck>>
limVars == <<rps, burst, buckets, lastGC, now, mu, callers, allowLog>>
queueVars == <<progVars, procVars, retVars, chanHist, itemHist, storeHist>>
vars == <<queueVars, limVars>>

\* ---- the store (internal/db/models.go) ----

\* INSERT INTO batch_jobs ... 'pending' RETURNING id
CreateBatchJob(js, totalItems) ==
    Append(js, [status |-> "pending", total_items |-> totalItems,
                completed_items |-> 0, completed_at |-> FALSE])

\* UPDATE batch_jobs SET status, completed_items [, completed_at] WHERE id = $3
UpdateBatchJobStatus(js, id, status, completedItems) ==
    [j \in DOMAIN js |->
        IF j = id
        THEN [js[j] EXCEPT !.status = status,
                           !.completed_items = completedItems,
                           !.completed_at = IF status \in Terminal THEN TRUE ELSE @]
        ELSE js[j]]

\* INSERT INTO batch_job_items ... 'pending' RETURNING id
CreateBatchJobItem(its, batchJobID, cvID) ==
    Append(its, [batch_job_id |-> batchJobID, cv_id |-> cvID,
                 status |-> "pending", result |-> FALSE])

\* UPDATE batch_job_items SET status, result, error_message WHERE id = $4
UpdateBatchJobItem(its, id, status, hasResult) ==
    [i \in DOMAIN its |->
        IF i = id THEN [its[i] EXCEPT !.status = status, !.result = hasResult]
        ELSE its[i]]

\* the rows SELECT ... FROM batch_job_items WHERE batch_job_id = $1 matches
ItemsOf(its, batchJobID) == {i \in DOMAIN its : its[i].batch_job_id = batchJobID}

\* the orders in which a SELECT without ORDER BY may return the rows of S
Orderings(S) ==
    {s \in [1..Cardinality(S) -> S] : \A a, b \in 1..Cardinality(S) : a # b => s[a] # s[b]}

\* GetBatchJobItems: any order of the matching rows
GetBatchJobItems(its, batchJobID) == Orderings(ItemsOf(its, batchJobID))

\* ---- construction ----

\* GetBatchJobStatus's locals and result before any call
NoJob == [id |-> 0, status |-> "", completed_items |-> 0, total_items |-> 0]
NoStatus == [err |-> FALSE, job_id |-> 0, status |-> "", total |-> 0, completed |-> 0,
             progress |-> <<0, 1>>]

Zero(S) == [x \in S |-> 0]

\* one more event on a history counter
Bump(n) == IF n < CountCap THEN n + 1 ELSE n

\* NewJobQueue(repo, workers) on empty tables
InitQueue ==
    /\ workers \in 1..MaxWorkers
    /\ provider = NoProvider
    /\ started = FALSE
    /\ stopped = FALSE
    /\ jobChan = <<>>
    /\ rlock = {}
    /\ crashed = FALSE
    /\ jobs = <<>>
    /\ items = <<>>
    /\ pc = [p \in Procs \cup Readers |-> "idle"]
    /\ jobID = Zero(Procs)
    /\ snap = [p \in Procs |-> <<>>]
    /\ idx = Zero(Procs)
    /\ completedCount = Zero(Procs)
    /\ outstanding = Zero(Procs)
    /\ createRet = [id |-> 0, err |-> FALSE]
    /\ processRet = "none"
    /\ rjob = NoJob
    /\ statusRet = NoStatus
    /\ sendCount = Zero(JobIds)
    /\ recvCount = Zero(JobIds)
    /\ dropped = {}
    /\ directCalled = {}
    /\ itemWrites = Zero(ItemIds)
    /\ itemLookups = Zero(ItemIds)
    /\ itemCalls = Zero(ItemIds)
    /\ faulted = {}
    /\ fetched = [j \in JobIds |-> {}]
    /\ fetchCount = Zero(JobIds)
    /\ storeErr = {}
    /\ stuck = {}

minFloat(a, b) == IF a < b THEN a ELSE b

\* a goroutine that has not called Allow: no ip, no result; t is the time its call
\* read, had the tokens its check saw, rivals the callers it left waiting for rl.mu
NoCall == [pc |-> "idle", ip |-> NoClient, ret |-> FALSE, had |-> 0, t |-> 0, rivals |-> 0]

\* NewRateLimiter(requestsPerSecond, burst), at time 0, and nobody calling Allow yet
NewRateLimiter(requestsPerSecond, b) ==
    /\ rps = requestsPerSecond
    /\ burst = b
    /\ buckets = [k \in {} |-> 0]
    /\ lastGC = 0
    /\ now = 0
    /\ mu = 0
    /\ callers = [c \in Callers |-> NoCall]
    /\ allowLog = [ip \in Clients |-> <<>>]

\* the server's construction: a queue and a rate limiter
Init == InitQueue /\ NewRateLimiter(MaxRate, MaxBurst)

\* ---- JobQueue's API (queue.go) ----

\* SetProvider: q.provider = provider under q.mu
SetProvider(v) ==
    /\ ~crashed
    /\ rlock = {}
    /\ provider' = v
    /\ UNCHANGED <<workers, started, stopped, jobChan, rlock, crashed, jobs, items>>
    /\ UNCHANGED <<procVars, retVars, chanHist, itemHist, storeHist>>
    /\ UNCHANGED limVars

\* Start: go q.worker(), q.workers times (the server calls it once)
Start ==
    /\ ~crashed
    /\ ~started
    /\ started' = TRUE
    /\ UNCHANGED <<workers, provider, stopped, jobChan, rlock, crashed, jobs, items>>
    /\ UNCHANGED <<procVars, retVars, chanHist, itemHist, storeHist>>
    /\ UNCHANGED limVars

\* Stop: close(q.stopChan) (the server calls it once, at shutdown)
Stop ==
    /\ ~crashed
    /\ ~stopped
    /\ stopped' = TRUE
    /\ UNCHANGED <<workers, provider, started, jobChan, rlock, crashed, jobs, items>>
    /\ UNCHANGED <<procVars, retVars, chanHist, itemHist, storeHist>>
    /\ UNCHANGED limVars

\* CreateJobOk with a send that ignores the channel's capacity
CreateJobOk_Unbounded(totalItems) ==
    /\ ~crashed
    /\ rlock = {}
    /\ Len(jobs) < MaxJobs
    /\ LET id == Len(jobs) + 1 IN
        /\ jobs' = CreateBatchJob(jobs, totalItems)
        /\ jobChan' = Append(jobChan, id)
        /\ sendCount' = [sendCount EXCEPT ![id] = Bump(@)]
        /\ dropped' = dropped
        /\ createRet' = [id |-> id, err |-> FALSE]
    /\ UNCHANGED <<workers, provider, started, stopped, rlock, crashed, items>>
    /\ UNCHANGED <<procVars, processRet, rjob, statusRet, recvCount, directCalled>>
    /\ UNCHANGED <<itemHist, storeHist>>
    /\ UNCHANGED limVars

\* CreateJob, CreateBatchJob succeeding: insert the row, then the non-blocking send
CreateJobOk(totalItems) ==
    /\ ~crashed
    /\ rlock = {}
    /\ Len(jobs) < MaxJobs
    /\ LET id == Len(jobs) + 1 IN
        /\ jobs' = CreateBatchJob(jobs, totalItems)
        /\ IF Len(jobChan) < ChanCap
           THEN /\ jobChan' = Append(jobChan, id)
                /\ sendCount' = [sendCount EXCEPT ![id] = Bump(@)]
                /\ dropped' = dropped
           ELSE /\ jobChan' = jobChan
                /\ sendCount' = sendCount
                /\ dropped' = dropped \cup {id}
        /\ createRet' = [id |-> id, err |-> FALSE]
    /\ UNCHANGED <<workers, provider, started, stopped, rlock, crashed, items>>
    /\ UNCHANGED <<procVars, processRet, rjob, statusRet, recvCount, directCalled>>
    /\ UNCHANGED <<itemHist, storeHist>>
    /\ UNCHANGED limVars

\* CreateJob, CreateBatchJob failing: return 0, err
CreateJobErr ==
    /\ ~crashed
    /\ rlock = {}
    /\ createRet' = [id |-> 0, err |-> TRUE]
    /\ UNCHANGED <<progVars, procVars, processRet, rjob, statusRet>>
    /\ UNCHANGED <<chanHist, itemHist, storeHist>>
    /\ UNCHANGED limVars

CreateJob(totalItems) == CreateJobOk(totalItems) \/ CreateJobErr

\* AddJobItem: insert one item row; the insert fails for a job id that has no row
\* (batch_job_id REFERENCES batch_jobs(id)) or when the store fails
AddJobItem(batchJobID, cvID) ==
    /\ ~crashed
    /\ rlock = {}
    /\ \/ /\ batchJobID \in DOMAIN jobs
          /\ Len(items) < MaxItems
          /\ items' = CreateBatchJobItem(items, batchJobID, cvID)
       \/ /\ items' = items
    /\ UNCHANGED <<workers, provider, started, stopped, jobChan, rlock, crashed, jobs>>
    /\ UNCHANGED <<procVars, retVars, chanHist, itemHist, storeHist>>
    /\ UNCHANGED limVars

\* ---- the worker loop (queue.go:54-63) ----

\* workerRecv reading the channel's head without taking it off
workerRecv_Peek(w) ==
    /\ ~crashed
    /\ started
    /\ w <= workers
    /\ pc[w] = "idle"
    /\ jobChan # <<>>
    /\ jobID' = [jobID EXCEPT ![w] = Head(jobChan)]
    /\ jobChan' = jobChan
    /\ recvCount' = [recvCount EXCEPT ![Head(jobChan)] = Bump(@)]
    /\ pc' = [pc EXCEPT ![w] = "ProcessJob"]
    /\ UNCHANGED <<workers, provider, started, stopped, rlock, crashed, jobs, items>>
    /\ UNCHANGED <<snap, idx, completedCount, outstanding, retVars>>
    /\ UNCHANGED <<sendCount, dropped, directCalled, itemHist, storeHist>>
    /\ UNCHANGED limVars

\* workerRecv with Start launching one loop too many (i <= q.workers)
workerRecv_ExtraLoop(w) ==
    /\ ~crashed
    /\ started
    /\ w <= workers + 1
    /\ pc[w] = "idle"
    /\ jobChan # <<>>
    /\ jobID' = [jobID EXCEPT ![w] = Head(jobChan)]
    /\ jobChan' = Tail(jobChan)
    /\ recvCount' = [recvCount EXCEPT ![Head(jobChan)] = Bump(@)]
    /\ pc' = [pc EXCEPT ![w] = "ProcessJob"]
    /\ UNCHANGED <<workers, provider, started, stopped, rlock, crashed, jobs, items>>
    /\ UNCHANGED <<snap, idx, completedCount, outstanding, retVars>>
    /\ UNCHANGED <<sendCount, dropped, directCalled, itemHist, storeHist>>
    /\ UNCHANGED limVars

\* select, case jobID := <-q.jobChan: the oldest id leaves the channel
workerRecv(w) ==
    /\ ~crashed
    /\ started
    /\ w <= workers
    /\ pc[w] = "idle"
    /\ jobChan # <<>>
    /\ jobID' = [jobID EXCEPT ![w] = Head(jobChan)]
    /\ jobChan' = Tail(jobChan)
    /\ recvCount' = [recvCount EXCEPT ![Head(jobChan)] = Bump(@)]
    /\ pc' = [pc EXCEPT ![w] = "ProcessJob"]
    /\ UNCHANGED <<workers, provider, started, stopped, rlock, crashed, jobs, items>>
    /\ UNCHANGED <<snap, idx, completedCount, outstanding, retVars>>
    /\ UNCHANGED <<sendCount, dropped, directCalled, itemHist, storeHist>>
    /\ UNCHANGED limVars

\* select, case <-q.stopChan: return.  select picks either case when both are ready.
workerExit(w) ==
    /\ ~crashed
    /\ started
    /\ w <= workers
    /\ pc[w] = "idle"
    /\ stopped
    /\ pc' = [pc EXCEPT ![w] = "exited"]
    /\ UNCHANGED <<progVars, jobID, snap, idx, completedCount, outstanding, retVars>>
    /\ UNCHANGED <<chanHist, itemHist, storeHist>>
    /\ UNCHANGED limVars

worker(w) == workerRecv(w) \/ workerExit(w)

\* a goroutine other than a worker loop calls q.ProcessJob(id); it does so once
DirectProcessJob(p, id) ==
    /\ ~crashed
    /\ p \in Direct
    /\ pc[p] = "idle"
    /\ jobID' = [jobID EXCEPT ![p] = id]
    /\ pc' = [pc EXCEPT ![p] = "ProcessJob"]
    /\ directCalled' = directCalled \cup {id}
    /\ UNCHANGED <<progVars, snap, idx, completedCount, outstanding, retVars>>
    /\ UNCHANGED <<sendCount, recvCount, dropped, itemHist, storeHist>>
    /\ UNCHANGED limVars

\* ---- ProcessJob (queue.go:99-169), one step per store or provider call ----

\* ProcessJob returns: a worker loop drops the result (queue.go:60) and selects again
Return(p, err) ==
    /\ pc' = [pc EXCEPT ![p] = IF p \in Direct THEN "returned" ELSE "idle"]
    /\ jobID' = [jobID EXCEPT ![p] = 0]
    /\ snap' = [snap EXCEPT ![p] = <<>>]
    /\ idx' = [idx EXCEPT ![p] = 0]
    /\ completedCount' = [completedCount EXCEPT ![p] = 0]
    /\ processRet' = IF p \in Direct THEN err ELSE processRet

\* where the range loop goes with the k-th element of s: past the end to the final
\* status write, to GetCV when item.CVID != nil, else to the provider call
LoopPC(s, k) ==
    IF k > Len(s) THEN "markCompleted"
    ELSE IF items[s[k]].cv_id # NoCV THEN "getCV"
    ELSE "customize"

\* ProcessJob_Begin going on to the items without looking at q.provider
ProcessJob_Begin_NoCheck(p) ==
    /\ ~crashed
    /\ pc[p] = "ProcessJob"
    /\ rlock = {}
    /\ \/ /\ jobs' = UpdateBatchJobStatus(jobs, jobID[p], "processing", 0)
          /\ pc' = [pc EXCEPT ![p] = "getItems"]
          /\ UNCHANGED <<jobID, snap, idx, completedCount, processRet, storeErr>>
       \/ /\ jobs' = jobs
          /\ storeErr' = storeErr \cup {jobID[p]}
          /\ Return(p, "err")
    /\ UNCHANGED <<workers, provider, started, stopped, jobChan, rlock, crashed, items>>
    /\ UNCHANGED <<outstanding, createRet, rjob, statusRet>>
    /\ UNCHANGED <<chanHist, itemHist, fetched, fetchCount, stuck>>
    /\ UNCHANGED limVars

\* ProcessJob_Begin marking the job failed when its first write returns an error
ProcessJob_Begin_MarkFailed(p) ==
    /\ ~crashed
    /\ pc[p] = "ProcessJob"
    /\ rlock = {}
    /\ \/ /\ jobs' = UpdateBatchJobStatus(jobs, jobID[p], "processing", 0)
          /\ pc' = [pc EXCEPT ![p] =
                        IF provider = NoProvider THEN "failNoProvider" ELSE "getItems"]
          /\ UNCHANGED <<jobID, snap, idx, completedCount, processRet, storeErr>>
       \/ /\ jobs' = UpdateBatchJobStatus(jobs, jobID[p], "failed", 0)
          /\ storeErr' = storeErr \cup {jobID[p]}
          /\ Return(p, "err")
    /\ UNCHANGED <<workers, provider, started, stopped, jobChan, rlock, crashed, items>>
    /\ UNCHANGED <<outstanding, createRet, rjob, statusRet>>
    /\ UNCHANGED <<chanHist, itemHist, fetched, fetchCount, stuck>>
    /\ UNCHANGED limVars

\* lines 100-115: under q.mu, mark the job processing, then look at q.provider
ProcessJob_Begin(p) ==
    /\ ~crashed
    /\ pc[p] = "ProcessJob"
    /\ rlock = {}
    /\ \/ /\ jobs' = UpdateBatchJobStatus(jobs, jobID[p], "processing", 0)
          /\ pc' = [pc EXCEPT ![p] =
                        IF provider = NoProvider THEN "failNoProvider" ELSE "getItems"]
          /\ UNCHANGED <<jobID, snap, idx, completedCount, processRet, storeErr>>
       \/ /\ jobs' = jobs
          /\ storeErr' = storeErr \cup {jobID[p]}
          /\ Return(p, "err")
    /\ UNCHANGED <<workers, provider, started, stopped, jobChan, rlock, crashed, items>>
    /\ UNCHANGED <<outstanding, createRet, rjob, statusRet>>
    /\ UNCHANGED <<chanHist, itemHist, fetched, fetchCount, stuck>>
    /\ UNCHANGED limVars

\* FinishJob returning without the status write
FinishJob_NoWrite(p, status, count, errIfOk, errIfFailed) ==
    /\ jobs' = jobs
    /\ Return(p, errIfOk)
    /\ UNCHANGED <<workers, provider, started, stopped, jobChan, rlock, crashed, items>>
    /\ UNCHANGED <<outstanding, createRet, rjob, statusRet>>
    /\ UNCHANGED <<chanHist, itemHist, storeHist>>
    /\ UNCHANGED limVars

\* a write of a terminal status followed by return: lines 111-112, 120-121,
\* 161-162 and 168.  Only line 168 returns the write's own error.
FinishJob(p, status, count, errIfOk, errIfFailed) ==
    /\ \/ /\ jobs' = UpdateBatchJobStatus(jobs, jobID[p], status, count)
          /\ UNCHANGED <<storeErr, stuck>>
          /\ Return(p, errIfOk)
       \/ /\ jobs' = jobs
          /\ storeErr' = storeErr \cup {jobID[p]}
          /\ stuck' = stuck \cup {jobID[p]}
          /\ Return(p, errIfFailed)
    /\ UNCHANGED <<workers, provider, started, stopped, jobChan, rlock, crashed, items>>
    /\ UNCHANGED <<outstanding, createRet, rjob, statusRet>>
    /\ UNCHANGED <<chanHist, itemHist, fetched, fetchCount>>
    /\ UNCHANGED limVars

\* lines 111-112: no provider, mark the job failed and return an error
ProcessJob_NoProvider(p) ==
    /\ ~crashed
    /\ pc[p] = "failNoProvider"
    /\ FinishJob(p, "failed", 0, "err", "err")

\* lines 118-122: fetch the job's items
ProcessJob_GetItems(p) ==
    /\ ~crashed
    /\ pc[p] = "getItems"
    /\ \/ \E s \in GetBatchJobItems(items, jobID[p]) :
            /\ snap' = [snap EXCEPT ![p] = s]
            /\ idx' = [idx EXCEPT ![p] = 1]
            /\ completedCount' = [completedCount EXCEPT ![p] = 0]
            /\ pc' = [pc EXCEPT ![p] = LoopPC(s, 1)]
            /\ fetched' = [fetched EXCEPT ![jobID[p]] = {s[k] : k \in DOMAIN s}]
            /\ fetchCount' = [fetchCount EXCEPT ![jobID[p]] = Bump(@)]
            /\ storeErr' = storeErr
       \/ /\ pc' = [pc EXCEPT ![p] = "failFetch"]
          /\ storeErr' = storeErr \cup {jobID[p]}
          /\ UNCHANGED <<snap, idx, completedCount, fetched, fetchCount>>
    /\ UNCHANGED <<progVars, jobID, outstanding, retVars, chanHist, itemHist, stuck>>
    /\ UNCHANGED limVars

\* ProcessJob_FetchFailed treating the failed fetch as an empty job
ProcessJob_FetchFailed_Completed(p) ==
    /\ ~crashed
    /\ pc[p] = "failFetch"
    /\ FinishJob(p, "completed", 0, "nil", "err")

\* lines 120-121: the fetch failed, mark the job failed and return the fetch error
ProcessJob_FetchFailed(p) ==
    /\ ~crashed
    /\ pc[p] = "failFetch"
    /\ FinishJob(p, "failed", 0, "err", "err")

\* lines 131-139: item.CVID != nil, look the CV up
ProcessJob_GetCV(p) ==
    /\ ~crashed
    /\ pc[p] = "getCV"
    /\ \/ /\ pc' = [pc EXCEPT ![p] = "customize"]
          /\ faulted' = faulted
       \/ /\ pc' = [pc EXCEPT ![p] = "itemFailed"]
          /\ faulted' = faulted \cup {snap[p][idx[p]]}
    /\ itemLookups' = [itemLookups EXCEPT ![snap[p][idx[p]]] = Bump(@)]
    /\ UNCHANGED <<progVars, jobID, snap, idx, completedCount, outstanding, retVars>>
    /\ UNCHANGED <<chanHist, itemWrites, itemCalls, storeHist>>
    /\ UNCHANGED limVars

\* ProcessJob_Customize not waiting for the call: the loop moves on at once
ProcessJob_Customize_Async(p) ==
    /\ ~crashed
    /\ pc[p] = "customize"
    /\ provider # NoProvider
    /\ outstanding' = [outstanding EXCEPT ![p] = @ + 1]
    /\ itemCalls' = [itemCalls EXCEPT ![snap[p][idx[p]]] = Bump(@)]
    /\ idx' = [idx EXCEPT ![p] = @ + 1]
    /\ pc' = [pc EXCEPT ![p] = LoopPC(snap[p], idx[p] + 1)]
    /\ UNCHANGED <<progVars, jobID, snap, completedCount, retVars>>
    /\ UNCHANGED <<chanHist, itemWrites, itemLookups, faulted, storeHist>>
    /\ UNCHANGED limVars

\* ProcessJob_Customize in a loop that gives up once q.stopChan is closed
ProcessJob_Customize_UntilStop(p) ==
    /\ ~crashed
    /\ ~stopped
    /\ pc[p] = "customize"
    /\ IF provider = NoProvider
       THEN /\ crashed' = TRUE
            /\ UNCHANGED <<pc, outstanding, itemCalls>>
       ELSE /\ crashed' = crashed
            /\ outstanding' = [outstanding EXCEPT ![p] = @ + 1]
            /\ itemCalls' = [itemCalls EXCEPT ![snap[p][idx[p]]] = Bump(@)]
            /\ pc' = [pc EXCEPT ![p] = "awaitCustomize"]
    /\ UNCHANGED <<workers, provider, started, stopped, jobChan, rlock, jobs, items>>
    /\ UNCHANGED <<jobID, snap, idx, completedCount, retVars>>
    /\ UNCHANGED <<chanHist, itemWrites, itemLookups, faulted, storeHist>>
    /\ UNCHANGED limVars

\* line 142, the call: q.provider is read without q.mu; a nil provider panics
ProcessJob_Customize(p) ==
    /\ ~crashed
    /\ pc[p] = "customize"
    /\ IF provider = NoProvider
       THEN /\ crashed' = TRUE
            /\ UNCHANGED <<pc, outstanding, itemCalls>>
       ELSE /\ crashed' = crashed
            /\ outstanding' = [outstanding EXCEPT ![p] = @ + 1]
            /\ itemCalls' = [itemCalls EXCEPT ![snap[p][idx[p]]] = Bump(@)]
            /\ pc' = [pc EXCEPT ![p] = "awaitCustomize"]
    /\ UNCHANGED <<workers, provider, started, stopped, jobChan, rlock, jobs, items>>
    /\ UNCHANGED <<jobID, snap, idx, completedCount, retVars>>
    /\ UNCHANGED <<chanHist, itemWrites, itemLookups, faulted, storeHist>>
    /\ UNCHANGED limVars

\* line 142, the return: a result or an error
ProcessJob_CustomizeReturn(p) ==
    /\ ~crashed
    /\ pc[p] = "awaitCustomize"
    /\ outstanding' = [outstanding EXCEPT ![p] = @ - 1]
    /\ \/ /\ pc' = [pc EXCEPT ![p] = "storeResult"]
          /\ faulted' = faulted
       \/ /\ pc' = [pc EXCEPT ![p] = "itemFailed"]
          /\ faulted' = faulted \cup {snap[p][idx[p]]}
    /\ UNCHANGED <<progVars, jobID, snap, idx, completedCount, retVars>>
    /\ UNCHANGED <<chanHist, itemWrites, itemLookups, itemCalls, storeHist>>
    /\ UNCHANGED limVars

\* ProcessJob_ItemFailed going round the loop with the same item again
ProcessJob_ItemFailed_Retry(p) ==
    /\ ~crashed
    /\ pc[p] = "itemFailed"
    /\ LET i == snap[p][idx[p]] IN
        /\ \/ /\ items' = UpdateBatchJobItem(items, i, "failed", FALSE)
              /\ storeErr' = storeErr
           \/ /\ items' = items
              /\ storeErr' = storeErr \cup {jobID[p]}
        /\ itemWrites' = [itemWrites EXCEPT ![i] = Bump(@)]
    /\ idx' = idx
    /\ pc' = [pc EXCEPT ![p] = LoopPC(snap[p], idx[p])]
    /\ UNCHANGED <<workers, provider, started, stopped, jobChan, rlock, crashed, jobs>>
    /\ UNCHANGED <<jobID, snap, completedCount, outstanding, retVars>>
    /\ UNCHANGED <<chanHist, itemLookups, itemCalls, faulted, fetched, fetchCount, stuck>>
    /\ UNCHANGED limVars

\* ProcessJob_ItemFailed continuing without the status write
ProcessJob_ItemFailed_NoWrite(p) ==
    /\ ~crashed
    /\ pc[p] = "itemFailed"
    /\ idx' = [idx EXCEPT ![p] = @ + 1]
    /\ pc' = [pc EXCEPT ![p] = LoopPC(snap[p], idx[p] + 1)]
    /\ UNCHANGED <<progVars, jobID, snap, completedCount, outstanding, retVars>>
    /\ UNCHANGED <<chanHist, itemHist, storeHist>>
    /\ UNCHANGED limVars

\* ProcessJob_ItemFailed giving the job up, as a failed write of a result does
ProcessJob_ItemFailed_Abort(p) ==
    /\ ~crashed
    /\ pc[p] = "itemFailed"
    /\ LET i == snap[p][idx[p]] IN
        /\ \/ /\ items' = UpdateBatchJobItem(items, i, "failed", FALSE)
              /\ storeErr' = storeErr
           \/ /\ items' = items
              /\ storeErr' = storeErr \cup {jobID[p]}
        /\ itemWrites' = [itemWrites EXCEPT ![i] = Bump(@)]
    /\ idx' = idx
    /\ pc' = [pc EXCEPT ![p] = "failItemWrite"]
    /\ UNCHANGED <<workers, provider, started, stopped, jobChan, rlock, crashed, jobs>>
    /\ UNCHANGED <<jobID, snap, completedCount, outstanding, retVars>>
    /\ UNCHANGED <<chanHist, itemLookups, itemCalls, faulted, fetched, fetchCount, stuck>>
    /\ UNCHANGED limVars

\* lines 135-136 and 145-146: mark the item failed, drop the write's error, continue
ProcessJob_ItemFailed(p) ==
    /\ ~crashed
    /\ pc[p] = "itemFailed"
    /\ LET i == snap[p][idx[p]] IN
        /\ \/ /\ items' = UpdateBatchJobItem(items, i, "failed", FALSE)
              /\ storeErr' = storeErr
           \/ /\ items' = items
              /\ storeErr' = storeErr \cup {jobID[p]}
        /\ itemWrites' = [itemWrites EXCEPT ![i] = Bump(@)]
    /\ idx' = [idx EXCEPT ![p] = @ + 1]
    /\ pc' = [pc EXCEPT ![p] = LoopPC(snap[p], idx[p] + 1)]
    /\ UNCHANGED <<workers, provider, started, stopped, jobChan, rlock, crashed, jobs>>
    /\ UNCHANGED <<jobID, snap, completedCount, outstanding, retVars>>
    /\ UNCHANGED <<chanHist, itemLookups, itemCalls, faulted, fetched, fetchCount, stuck>>
    /\ UNCHANGED limVars

\* ProcessJob_StoreResult not counting the item it stored
ProcessJob_StoreResult_NoCount(p) ==
    /\ ~crashed
    /\ pc[p] = "storeResult"
    /\ LET i == snap[p][idx[p]] IN
        /\ \/ /\ items' = UpdateBatchJobItem(items, i, "completed", TRUE)
              /\ completedCount' = completedCount
              /\ idx' = [idx EXCEPT ![p] = @ + 1]
              /\ pc' = [pc EXCEPT ![p] = LoopPC(snap[p], idx[p] + 1)]
              /\ storeErr' = storeErr
           \/ /\ items' = items
              /\ pc' = [pc EXCEPT ![p] = "failItemWrite"]
              /\ storeErr' = storeErr \cup {jobID[p]}
              /\ UNCHANGED <<completedCount, idx>>
        /\ itemWrites' = [itemWrites EXCEPT ![i] = Bump(@)]
    /\ UNCHANGED <<workers, provider, started, stopped, jobChan, rlock, crashed, jobs>>
    /\ UNCHANGED <<jobID, snap, outstanding, retVars>>
    /\ UNCHANGED <<chanHist, itemLookups, itemCalls, faulted, fetched, fetchCount, stuck>>
    /\ UNCHANGED limVars

\* lines 150-164: store the result with status completed; count it, or give up
ProcessJob_StoreResult(p) ==
    /\ ~crashed
    /\ pc[p] = "storeResult"
    /\ LET i == snap[p][idx[p]] IN
        /\ \/ /\ items' = UpdateBatchJobItem(items, i, "completed", TRUE)
              /\ completedCount' = [completedCount EXCEPT ![p] = @ + 1]
              /\ idx' = [idx EXCEPT ![p] = @ + 1]
              /\ pc' = [pc EXCEPT ![p] = LoopPC(snap[p], idx[p] + 1)]
              /\ storeErr' = storeErr
           \/ /\ items' = items
              /\ pc' = [pc EXCEPT ![p] = "failItemWrite"]
              /\ storeErr' = storeErr \cup {jobID[p]}
              /\ UNCHANGED <<completedCount, idx>>
        /\ itemWrites' = [itemWrites EXCEPT ![i] = Bump(@)]
    /\ UNCHANGED <<workers, provider, started, stopped, jobChan, rlock, crashed, jobs>>
    /\ UNCHANGED <<jobID, snap, outstanding, retVars>>
    /\ UNCHANGED <<chanHist, itemLookups, itemCalls, faulted, fetched, fetchCount, stuck>>
    /\ UNCHANGED limVars

\* lines 161-162: the item write failed, mark the job failed and return its error
ProcessJob_ItemWriteFailed(p) ==
    /\ ~crashed
    /\ pc[p] = "failItemWrite"
    /\ FinishJob(p, "failed", completedCount[p], "err", "err")

\* line 168: mark the job completed and return that write's error
ProcessJob_MarkCompleted(p) ==
    /\ ~crashed
    /\ pc[p] = "markCompleted"
    /\ FinishJob(p, "completed", completedCount[p], "nil", "err")

ProcessJob(p) ==
    \/ ProcessJob_Begin(p)
    \/ ProcessJob_NoProvider(p)
    \/ ProcessJob_GetItems(p)
    \/ ProcessJob_FetchFailed(p)
    \/ ProcessJob_GetCV(p)
    \/ ProcessJob_Customize(p)
    \/ ProcessJob_CustomizeReturn(p)
    \/ ProcessJob_ItemFailed(p)
    \/ ProcessJob_StoreResult(p)
    \/ ProcessJob_ItemWriteFailed(p)
    \/ ProcessJob_MarkCompleted(p)

\* ---- GetBatchJobStatus (queue.go:172-208) ----

\* float64(completedCount) / float64(len(items)) as the exact fraction, 0.0 as 0/1
Progress(completed, total) ==
    IF total > 0 THEN <<completed, total>> ELSE <<0, 1>>

\* the loop of lines 187-192 over the fetched rows
CountCompleted(its, S) == Cardinality({i \in S : its[i].status = "completed"})

\* StatusOf reporting the job row's completed_items instead of counting
StatusOf_Cached(its, job, S) ==
    [err |-> FALSE, job_id |-> job.id, status |-> job.status,
     total |-> Cardinality(S), completed |-> job.completed_items,
     progress |-> Progress(job.completed_items, Cardinality(S))]

\* what GetBatchJobStatus returns for the job row `job` and the fetched rows S
StatusOf(its, job, S) ==
    [err |-> FALSE, job_id |-> job.id, status |-> job.status,
     total |-> Cardinality(S), completed |-> CountCompleted(its, S),
     progress |-> Progress(CountCompleted(its, S), Cardinality(S))]

\* lines 173-179: take the read lock and read the job row; no row is an error
GetBatchJobStatus_GetJob(r, id) ==
    /\ ~crashed
    /\ pc[r] = "idle"
    /\ \/ /\ id \in DOMAIN jobs
          /\ rjob' = [id |-> id, status |-> jobs[id].status,
                      completed_items |-> jobs[id].completed_items,
                      total_items |-> jobs[id].total_items]
          /\ rlock' = rlock \cup {r}
          /\ pc' = [pc EXCEPT ![r] = "statusItems"]
          /\ statusRet' = statusRet
       \/ /\ statusRet' = [NoStatus EXCEPT !.err = TRUE]
          /\ UNCHANGED <<rjob, rlock, pc>>
    /\ UNCHANGED <<workers, provider, started, stopped, jobChan, crashed, jobs, items>>
    /\ UNCHANGED <<jobID, snap, idx, completedCount, outstanding, createRet, processRet>>
    /\ UNCHANGED <<chanHist, itemHist, storeHist>>
    /\ UNCHANGED limVars

\* lines 181-207: read the items, count the completed ones, release the lock
GetBatchJobStatus_GetItems(r) ==
    /\ ~crashed
    /\ pc[r] = "statusItems"
    /\ \/ statusRet' = StatusOf(items, rjob, ItemsOf(items, rjob.id))
       \/ statusRet' = [NoStatus EXCEPT !.err = TRUE]
    /\ rjob' = NoJob
    /\ rlock' = rlock \ {r}
    /\ pc' = [pc EXCEPT ![r] = "idle"]
    /\ UNCHANGED <<workers, provider, started, stopped, jobChan, crashed, jobs, items>>
    /\ UNCHANGED <<jobID, snap, idx, completedCount, outstanding, createRet, processRet>>
    /\ UNCHANGED <<chanHist, itemHist, storeHist>>
    /\ UNCHANGED limVars

GetBatchJobStatus(r) ==
    \/ \E id \in JobIds : GetBatchJobStatus_GetJob(r, id)
    \/ GetBatchJobStatus_GetItems(r)

\* ---- RateLimiter (middleware.go:68-149) ----

\* cleanupOldBuckets deleting a bucket refilled exactly at the cutoff as well
cleanupOldBuckets_AtCutoff(bs, t) ==
    [k \in {x \in DOMAIN bs : ~(bs[x].lastRefill <= t - cleanup)} |-> bs[k]]

\* cleanupOldBuckets at time t: delete the buckets with lastRefill before t - cleanup
cleanupOldBuckets(bs, t) ==
    [k \in {x \in DOMAIN bs : ~(bs[x].lastRefill < t - cleanup)} |-> bs[k]]

\* lines 101-104: the sweep runs when more than cleanup has passed since lastGC
Swept(t) == IF t - lastGC > cleanup THEN cleanupOldBuckets(buckets, t) ELSE buckets

\* lines 106-114: the client's bucket, a new one holding burst tokens if there is none
Bucket(bs, ip, t) ==
    IF ip \in DOMAIN bs THEN bs[ip] ELSE [tokens |-> burst * Unit, lastRefill |-> t]

\* Refill without the cap at burst
Refill_Uncapped(b, t) ==
    [tokens |-> b.tokens + (t - b.lastRefill) * rps,
     lastRefill |-> t]

\* lines 117-120: add elapsed * rps tokens, capped at burst
Refill(b, t) ==
    [tokens |-> minFloat(burst * Unit, b.tokens + (t - b.lastRefill) * rps),
     lastRefill |-> t]

\* the tokens the caller's bucket pointer reads; under rl.mu the bucket is in the map
Tokens(ip) == IF ip \in DOMAIN buckets THEN buckets[ip].tokens ELSE 0

\* the Allow calls made so far, returned or not
Calls ==
    Cardinality(UNION {{<<ip, k>> : k \in DOMAIN allowLog[ip]} : ip \in Clients})
        + Cardinality({d \in Callers : callers[d].pc # "idle"})

\* a goroutine calls rl.Allow(ip) and waits for rl.mu
Call(c, ip) ==
    /\ callers[c].pc = "idle"
    /\ Calls < MaxLog
    /\ callers' = [callers EXCEPT ![c] = [NoCall EXCEPT !.pc = "waiting", !.ip = ip]]
    /\ UNCHANGED <<rps, burst, buckets, lastGC, now, mu, allowLog>>
    /\ UNCHANGED queueVars

\* Allow_Enter taking rl.mu whether or not it is held
Allow_Enter_NoLock(c) ==
    /\ callers[c].pc = "waiting"
    /\ mu' = c
    /\ LET ip == callers[c].ip
           bs == Swept(now)
       IN /\ lastGC' = IF now - lastGC > cleanup THEN now ELSE lastGC
          /\ buckets' = [k \in DOMAIN bs \cup {ip} |->
                            IF k = ip THEN Refill(Bucket(bs, ip, now), now) ELSE bs[k]]
          /\ callers' = [callers EXCEPT ![c].pc = "check", ![c].t = now,
                            ![c].rivals = Cardinality({d \in Callers \ {c} :
                                /\ callers[d].pc = "waiting"
                                /\ callers[d].ip = ip})]
    /\ UNCHANGED <<rps, burst, now, allowLog>>
    /\ UNCHANGED queueVars

\* lines 98-121: rl.mu.Lock(), then sweep, find or make the bucket, refill it
Allow_Enter(c) ==
    /\ callers[c].pc = "waiting"
    /\ mu = 0
    /\ mu' = c
    /\ LET ip == callers[c].ip
           bs == Swept(now)
       IN /\ lastGC' = IF now - lastGC > cleanup THEN now ELSE lastGC
          /\ buckets' = [k \in DOMAIN bs \cup {ip} |->
                            IF k = ip THEN Refill(Bucket(bs, ip, now), now) ELSE bs[k]]
          /\ callers' = [callers EXCEPT ![c].pc = "check", ![c].t = now,
                            ![c].rivals = Cardinality({d \in Callers \ {c} :
                                /\ callers[d].pc = "waiting"
                                /\ callers[d].ip = ip})]
    /\ UNCHANGED <<rps, burst, now, allowLog>>
    /\ UNCHANGED queueVars

\* line 124: bucket.tokens >= 1.0
Allow_Check(c) ==
    /\ callers[c].pc = "check"
    /\ callers' = [callers EXCEPT ![c].pc = "return",
                                  ![c].had = Tokens(callers[c].ip),
                                  ![c].ret = Tokens(callers[c].ip) >= Unit]
    /\ UNCHANGED <<rps, burst, buckets, lastGC, now, mu, allowLog>>
    /\ UNCHANGED queueVars

\* lines 125-130: bucket.tokens-- when the check passed, return, rl.mu.Unlock()
Allow_Return(c) ==
    /\ callers[c].pc = "return"
    /\ buckets' = [k \in DOMAIN buckets |->
                      IF k = callers[c].ip /\ callers[c].ret
                      THEN [buckets[k] EXCEPT !.tokens = @ - Unit]
                      ELSE buckets[k]]
    /\ mu' = IF mu = c THEN 0 ELSE mu
    /\ callers' = [callers EXCEPT ![c].pc = "idle"]
    /\ allowLog' = [allowLog EXCEPT ![callers[c].ip] =
                      Append(@, [t |-> callers[c].t, ok |-> callers[c].ret,
                                 had |-> callers[c].had])]
    /\ UNCHANGED <<rps, burst, lastGC, now>>
    /\ UNCHANGED queueVars

\* Allow, lines 97-131
Allow(c) == Allow_Enter(c) \/ Allow_Check(c) \/ Allow_Return(c)

\* time passes
Tick ==
    /\ now < MaxTime
    /\ now' = now + 1
    /\ UNCHANGED <<rps, burst, buckets, lastGC, mu, callers, allowLog>>
    /\ UNCHANGED queueVars

\* ---- specifications ----

\* what the server and its clients may call while the queue runs; the HTTP handler
\* passes len(items) >= 1 as totalItems
Environment ==
    \/ Start
    \/ Stop
    \/ \E v \in Providers : SetProvider(v)
    \/ \E n \in 1..MaxTotal : CreateJob(n)
    \/ \E j \in JobIds, c \in CVIds : AddJobItem(j, c)

\* jobs are driven by the worker loops alone
Next ==
    \/ Environment
    \/ \E w \in Workers : worker(w) \/ ProcessJob(w)

Spec == Init /\ [][Next]_vars

\* the same calls with at most OneJob jobs submitted
EnvironmentOneJob ==
    \/ Start
    \/ Stop
    \/ \E v \in Providers : SetProvider(v)
    \/ \E n \in 1..MaxTotal : Len(jobs) < OneJob /\ CreateJob(n)
    \/ \E j \in JobIds, c \in CVIds : AddJobItem(j, c)

\* a queue of one worker, and a goroutine that calls ProcessJob on an id of its choice
InitDirect == Init /\ workers = 1

NextDirect ==
    \/ EnvironmentOneJob
    \/ \E w \in Workers : worker(w)
    \/ \E p \in Procs : ProcessJob(p)
    \/ \E p \in Direct, id \in JobIds : DirectProcessJob(p, id)

SpecDirect == InitDirect /\ [][NextDirect]_vars

\* a queue of one worker, and a goroutine that polls GetBatchJobStatus
NextStatus ==
    \/ EnvironmentOneJob
    \/ \E w \in Workers : worker(w) \/ ProcessJob(w)
    \/ \E r \in Readers : GetBatchJobStatus(r)

SpecStatus == InitDirect /\ [][NextStatus]_vars

\* a queue of one worker and one job whose ProcessJob run keeps going: the Go
\* scheduler runs a runnable goroutine, and every store and provider call returns
NextOneJob ==
    \/ EnvironmentOneJob
    \/ \E w \in Workers : worker(w) \/ ProcessJob(w)

SpecFair ==
    /\ InitDirect
    /\ [][NextOneJob]_vars
    /\ \A w \in Workers : WF_vars(ProcessJob(w))

\* a queue of one worker whose goroutine keeps being scheduled: a ready receive
\* is taken and a ProcessJob run goes on, every store and provider call returning
SpecLive ==
    /\ InitDirect
    /\ [][Next]_vars
    /\ \A w \in Workers : WF_vars(worker(w)) /\ WF_vars(ProcessJob(w))

\* a rate limiter of any rate and burst, and goroutines calling Allow as time passes
InitLimiter == InitQueue /\ workers = 1 /\ \E r \in Rates, b \in Bursts : NewRateLimiter(r, b)

NextLimiter ==
    \/ Tick
    \/ \E c \in Callers, ip \in Clients : Call(c, ip)
    \/ \E c \in Callers : Allow(c)

SpecLimiter == InitLimiter /\ [][NextLimiter]_vars

\* ---- properties ----

RECURSIVE Sum(_, _)
Sum(f, S) == IF S = {} THEN 0 ELSE LET x == CHOOSE y \in S : TRUE IN f[x] + Sum(f, S \ {x})

Occurrences(s, x) == Cardinality({k \in DOMAIN s : s[k] = x})

Processing == {j \in DOMAIN jobs : jobs[j].status = "processing"}

\* C1 as stated: at most N = q.workers jobs have persisted status processing,
\* whatever the outcome of the store writes.
C1_AtMostNProcessing == Cardinality(Processing) <= workers

\* C1 amended: at most N jobs have persisted status processing, not counting the
\* jobs whose write of a terminal status returned an error.
C1_AtMostNProcessingUnstuck == Cardinality(Processing \ stuck) <= workers

\* two workers, each with a job in processing
C1_Witness == workers = 2 /\ Cardinality(Processing \ stuck) = 2

\* C2: every worker loop has at most one provider call outstanding, so the calls
\* outstanding never exceed the worker count N.
C2_OneOutstandingCall ==
    /\ \A w \in Workers : outstanding[w] <= 1
    /\ Sum(outstanding, Workers) <= workers

\* two workers, both inside provider.Customize
C2_Witness == workers = 2 /\ Sum(outstanding, Workers) = 2

\* C3: a job id is sent on jobChan at most once and received at most once, so no
\* two worker loops run ProcessJob for the same id, at once or one after the other.
C3_SingleDispatch ==
    \A j \in JobIds :
        /\ sendCount[j] <= 1
        /\ recvCount[j] <= sendCount[j]
        /\ Occurrences(jobChan, j) <= 1
        /\ Cardinality({w \in Workers : jobID[w] = j}) <= 1
        /\ fetchCount[j] <= 1

\* two jobs sent and received once each, both being run by different workers
C3_Witness ==
    /\ \A j \in JobIds : sendCount[j] = 1 /\ recvCount[j] = 1
    /\ \E v, w \in Workers : v # w /\ jobID[v] = 1 /\ jobID[w] = 2

\* C4 as stated: once a job's persisted status is completed or failed it never
\* changes, with direct ProcessJob calls allowed.
C4_TerminalJobStatusStays ==
    [][\A j \in DOMAIN jobs :
          jobs[j].status \in Terminal => jobs'[j].status = jobs[j].status]_vars

\* C5: under worker-loop dispatch an item's status is written at most once and the
\* item goes to the provider at most once; a completed or failed item has had its
\* one write.
C5_ItemWrittenOnce ==
    \A i \in ItemIds :
        /\ itemWrites[i] <= 1
        /\ itemCalls[i] <= 1
        /\ (i \in DOMAIN items /\ items[i].status \in Terminal) => itemWrites[i] = 1

\* a finished job with a completed and a failed item, each written once
C5_Witness ==
    \E j \in DOMAIN jobs, a, b \in DOMAIN items :
        /\ jobs[j].status = "completed"
        /\ items[a].batch_job_id = j /\ items[a].status = "completed" /\ itemWrites[a] = 1
        /\ items[b].batch_job_id = j /\ items[b].status = "failed" /\ itemWrites[b] = 1

\* the goroutine is inside the range loop of ProcessJob
InLoop(p) == pc[p] \in {"getCV", "customize", "awaitCustomize", "itemFailed", "storeResult"}

\* C6: within one ProcessJob run the items are handled one after another in the
\* fetched order: when the run is at the k-th item, the status write of every
\* earlier item has been issued and no later item has been looked up, sent to
\* the provider or written.
C6_SequentialItems ==
    \A w \in Workers :
        /\ InLoop(w) =>
            /\ idx[w] \in DOMAIN snap[w]
            /\ \A k \in 1..(idx[w] - 1) : itemWrites[snap[w][k]] = 1
            /\ \A k \in (idx[w] + 1)..Len(snap[w]) :
                  /\ itemLookups[snap[w][k]] = 0
                  /\ itemCalls[snap[w][k]] = 0
                  /\ itemWrites[snap[w][k]] = 0
            /\ itemWrites[snap[w][idx[w]]] = 0
        /\ pc[w] = "markCompleted" =>
            \A k \in DOMAIN snap[w] : itemWrites[snap[w][k]] = 1

\* a worker calling the provider for the second of two items, the first written
C6_Witness ==
    \E w \in Workers :
        /\ pc[w] = "awaitCustomize"
        /\ Len(snap[w]) = 2
        /\ idx[w] = 2
        /\ itemWrites[snap[w][1]] = 1

\* C7: the completed value GetBatchJobStatus returns is the number of the job's
\* items whose status is completed in the store when the items are read, whatever
\* the job row's completed_items.
C7_CountsItems ==
    [][\A r \in Readers :
          (pc[r] = "statusItems" /\ pc'[r] = "idle" /\ ~statusRet'.err) =>
              statusRet'.completed =
                  Cardinality({i \in DOMAIN items :
                                  /\ items[i].batch_job_id = rjob.id
                                  /\ items[i].status = "completed"})]_vars

\* a result for a job still processing, its completed_items 0, with one item counted
C7_Witness ==
    /\ ~statusRet.err
    /\ statusRet.status = "processing"
    /\ statusRet.completed = 1
    /\ statusRet.job_id \in DOMAIN jobs
    /\ jobs[statusRet.job_id].status = "processing"
    /\ jobs[statusRet.job_id].completed_items = 0

\* C8: CreateJob on a full jobChan still inserts the job and returns its id and a
\* nil error, leaves jobChan as it was, and the job stays pending from then on
\* unless ProcessJob is called on it directly.
C8_SaturatedCreateJob ==
    /\ [][(Len(jobChan) = ChanCap /\ Len(jobs') = Len(jobs) + 1) =>
            /\ jobChan' = jobChan
            /\ createRet' = [id |-> Len(jobs'), err |-> FALSE]
            /\ jobs'[Len(jobs')].status = "pending"
            /\ Len(jobs') \in dropped']_vars
    /\ [](\A j \in dropped :
            /\ j \in DOMAIN jobs
            /\ sendCount[j] = 0
            /\ recvCount[j] = 0
            /\ j \notin directCalled => jobs[j].status = "pending")

\* a job dropped at admission is still pending with the channel empty, the
\* workers idle and the job submitted before it finished
C8_Witness ==
    /\ started
    /\ jobChan = <<>>
    /\ \A w \in Workers : pc[w] = "idle"
    /\ \E j \in dropped, k \in DOMAIN jobs :
        /\ jobs[j].status = "pending"
        /\ jobs[k].status \in Terminal

\* C9 as stated, for a run that is over: a job of k items, with no store error
\* and no provider or lookup error, that has status completed once its k
\* AddJobItem calls are done has completed_items = k and k completed items.
C9_AllItemsProcessed ==
    \A j \in DOMAIN jobs :
        (/\ jobs[j].status = "completed"
         /\ Cardinality(ItemsOf(items, j)) = jobs[j].total_items
         /\ j \notin storeErr
         /\ ItemsOf(items, j) \cap faulted = {}) =>
            /\ jobs[j].completed_items = jobs[j].total_items
            /\ \A i \in ItemsOf(items, j) : items[i].status = "completed"

\* C10: for a finished job whose fetch returned all its items and whose store
\* calls all succeeded, exactly the items with a provider or lookup error are
\* failed, the others are completed, and the job is completed with
\* completed_items the number of the others.
C10_PartialFailure ==
    \A j \in DOMAIN jobs :
        (/\ jobs[j].status \in Terminal
         /\ fetchCount[j] = 1
         /\ fetched[j] = ItemsOf(items, j)
         /\ j \notin storeErr) =>
            /\ jobs[j].status = "completed"
            /\ jobs[j].completed_items = Cardinality(ItemsOf(items, j) \ faulted)
            /\ \A i \in ItemsOf(items, j) :
                  items[i].status = IF i \in faulted THEN "failed" ELSE "completed"

\* a job of two items, both with an error: completed with completed_items 0
C10_Witness ==
    \E j \in DOMAIN jobs :
        /\ jobs[j].status = "completed"
        /\ jobs[j].completed_items = 0
        /\ j \notin storeErr
        /\ fetched[j] = ItemsOf(items, j)
        /\ Cardinality(ItemsOf(items, j)) = 2
        /\ ItemsOf(items, j) \subseteq faulted
        /\ \A i \in ItemsOf(items, j) : items[i].status = "failed"

\* where ProcessJob leaves the goroutine when it returns
Returned(p) == IF p \in Direct THEN "returned" ELSE "idle"

C13_CompletedWithinTotal ==
    \A j \in DOMAIN jobs :
        /\ 0 <= jobs[j].completed_items
        /\ jobs[j].completed_items <= jobs[j].total_items

\* C14 as stated: for every job, completed_at is set exactly when the status is
\* completed or failed, with direct ProcessJob calls allowed.
C14_CompletedAtIffTerminal ==
    \A j \in DOMAIN jobs : jobs[j].completed_at <=> jobs[j].status \in Terminal

\* C15 as stated: once Stop() has been called no worker loop receives a job id
\* from jobChan, even when ids are still queued.
C15_NoReceiveAfterStop ==
    [][stopped =>
          /\ Len(jobChan') >= Len(jobChan)
          /\ \A w \in Workers : ~(pc[w] = "idle" /\ pc'[w] = "ProcessJob")]_vars

\* the goroutine is inside a ProcessJob call
Running(p) == pc[p] \notin {"idle", "exited", "returned"}

LiveWorkers == {w \in 1..workers : pc[w] # "exited"}

\* C17 as stated: from Start() until Stop() is called all N worker loops are alive:
\* none has exited and no goroutine has panicked, whatever the jobs' outcomes and
\* with SetProvider called while a job is in progress.
C17_WorkersStayAlive ==
    (started /\ ~stopped) => (~crashed /\ Cardinality(LiveWorkers) = workers)

\* the first burst + 1 calls of client ip came with no time passing, the next
\* one 1/rps later: (t - t0) * rps is one token
BurstThenWait(ip) ==
    /\ Len(allowLog[ip]) >= burst + 2
    /\ \A k \in 1..(burst + 1) : allowLog[ip][k].t = allowLog[ip][1].t
    /\ (allowLog[ip][burst + 2].t - allowLog[ip][1].t) * rps = Unit

\* C18 as stated, for every burst B >= 1 and rate R > 0: the first B + 1 Allow
\* calls of an unseen client with no time passing return true B times and then
\* false; the next call, 1/R later, returns true and a call right after it false.
C18_BurstThenOnePerInterval ==
    \A ip \in Clients :
        /\ \A k \in DOMAIN allowLog[ip] :
              (k <= burst + 1 /\ \A m \in 1..k : allowLog[ip][m].t = allowLog[ip][1].t) =>
                  allowLog[ip][k].ok = (k <= burst)
        /\ BurstThenWait(ip) => allowLog[ip][burst + 2].ok
        /\ (/\ BurstThenWait(ip)
            /\ Len(allowLog[ip]) >= burst + 3
            /\ allowLog[ip][burst + 3].t = allowLog[ip][burst + 2].t) =>
                ~allowLog[ip][burst + 3].ok

\* C19: after every Allow call every bucket in the map holds between 0 and burst
\* tokens, and so did the bucket of each call between its refill and its take.
C19_TokensWithinBurst ==
    /\ \A ip \in DOMAIN buckets :
          0 <= buckets[ip].tokens /\ buckets[ip].tokens <= burst * Unit
    /\ \A ip \in Clients : \A k \in DOMAIN allowLog[ip] :
          0 <= allowLog[ip][k].had /\ allowLog[ip][k].had <= burst * Unit

\* what the k-th call of client ip left in the bucket
LeftBy(ip, k) == allowLog[ip][k].had - (IF allowLog[ip][k].ok THEN Unit ELSE 0)

\* a call whose refill would have passed burst and was capped, and a bucket at 0
C19_Witness ==
    /\ \E ip \in Clients : \E k \in DOMAIN allowLog[ip] :
          /\ k > 1
          /\ LeftBy(ip, k - 1) + (allowLog[ip][k].t - allowLog[ip][k - 1].t) * rps > burst * Unit
          /\ allowLog[ip][k].had = burst * Unit
    /\ \E ip \in DOMAIN buckets : buckets[ip].tokens = 0

Min(a, b) == IF a < b THEN a ELSE b

\* the calls i..j of client ip that returned true
Granted(ip, i, j) == Cardinality({k \in i..j : allowLog[ip][k].ok})

\* C20: concurrent Allow calls take effect one at a time, in the order they hold
\* rl.mu.  At most one caller is past Lock; of the calls i..j of a client that read
\* the same time, the first having found t whole tokens, exactly min(t, j - i + 1)
\* return true; each call finds what the one before it left (no token is taken
\* twice or lost), and with rl.mu free the bucket holds what the last call left.
C20_AllowSerializes ==
    /\ Cardinality({c \in Callers : callers[c].pc \in {"check", "return"}}) <= 1
    /\ \A c \in Callers : callers[c].pc \in {"check", "return"} => mu = c
    /\ \A ip \in Clients :
          /\ \A i, j \in DOMAIN allowLog[ip] :
                (i <= j /\ allowLog[ip][i].t = allowLog[ip][j].t) =>
                    Granted(ip, i, j) = Min(allowLog[ip][i].had \div Unit, j - i + 1)
          /\ \A k \in DOMAIN allowLog[ip] :
                /\ allowLog[ip][k].ok = (allowLog[ip][k].had >= Unit)
                /\ (k > 1 /\ allowLog[ip][k].t = allowLog[ip][k - 1].t) =>
                      allowLog[ip][k].had = LeftBy(ip, k - 1)
          /\ (mu = 0 /\ ip \in DOMAIN buckets /\ allowLog[ip] # <<>>
                /\ buckets[ip].lastRefill = allowLog[ip][Len(allowLog[ip])].t) =>
                buckets[ip].tokens = LeftBy(ip, Len(allowLog[ip]))

\* two callers were in Allow for one client at once, the bucket holding one token:
\* the one that got rl.mu first returned true, the other, at the same time, false
C20_Witness ==
    \E c, d \in Callers :
        /\ c # d
        /\ callers[c].pc = "idle" /\ callers[d].pc = "idle"
        /\ callers[c].ip = callers[d].ip /\ callers[c].ip \in Clients
        /\ callers[c].t = callers[d].t
        /\ callers[c].rivals = 1
        /\ callers[c].had \div Unit = 1
        /\ callers[c].ret /\ ~callers[d].ret

\* C21 as stated: the total GetBatchJobStatus returns is the job row's total_items
\* and its progress is completed / total_items, 0.0 when total_items is 0.
C21_TotalIsTotalItems ==
    [][\A r \in Readers :
          (pc[r] = "statusItems" /\ pc'[r] = "idle" /\ ~statusRet'.err) =>
              /\ statusRet'.total = rjob.total_items
              /\ statusRet'.progress = Progress(statusRet'.completed, rjob.total_items)]_vars

\* C22 as stated: when CreateJob(owner, k) has accepted a submission the store
\* holds exactly k items of the new job, all pending, and the number of items of
\* a job never changes afterwards.
C22_ItemsFixedAtSubmission ==
    [][/\ Len(jobs') = Len(jobs) + 1 =>
            /\ Cardinality(ItemsOf(items', Len(jobs'))) = jobs'[Len(jobs')].total_items
            /\ \A i \in ItemsOf(items', Len(jobs')) : items'[i].status = "pending"
       /\ \A j \in DOMAIN jobs :
            Cardinality(ItemsOf(items', j)) = Cardinality(ItemsOf(items, j))]_vars

\* the status changes of the state machine both jobs and items are to follow
Transitions ==
    {<<"pending", "processing">>, <<"processing", "completed">>,
     <<"pending", "failed">>, <<"processing", "failed">>}

\* C23 as stated: every status change of a job or of an item is one of
\* pending -> processing, processing -> completed, pending -> failed and
\* processing -> failed.
C23_OnlyListedTransitions ==
    [][/\ \A j \in DOMAIN jobs :
            jobs'[j].status # jobs[j].status =>
                <<jobs[j].status, jobs'[j].status>> \in Transitions
       /\ \A i \in DOMAIN items :
            items'[i].status # items[i].status =>
                <<items[i].status, items'[i].status>> \in Transitions]_vars

\* C24: a ProcessJob run whose first write (status processing) returns an error
\* returns an error at once and changes nothing: the job rows and the item rows
\* are as before, no item list is fetched, no item is looked up, sent to the
\* provider or written, and a worker loop is back at its select.
C24_FirstWriteFails ==
    [][\A p \in Procs :
          (pc[p] = "ProcessJob" /\ pc'[p] = Returned(p)) =>
              /\ jobs' = jobs
              /\ items' = items
              /\ fetched' = fetched /\ fetchCount' = fetchCount
              /\ itemHist' = itemHist
              /\ outstanding' = outstanding
              /\ ~crashed'
              /\ jobID[p] \in storeErr'
              /\ p \in Direct => processRet' = "err"
              /\ p \in Workers => (pc'[p] = "idle" /\ jobID'[p] = 0)]_vars

\* before Start(), a direct ProcessJob call on a pending job with an item has
\* returned an error from its first write: the job is still pending, nothing fetched
C24_Witness ==
    /\ ~started
    /\ processRet = "err"
    /\ directCalled = {1}
    /\ storeErr = {1}
    /\ 1 \in DOMAIN jobs
    /\ jobs[1].status = "pending"
    /\ jobs[1].completed_items = 0
    /\ fetchCount[1] = 0
    /\ ItemsOf(items, 1) # {}
    /\ \A i \in ItemsOf(items, 1) : items[i].status = "pending"

\* C25: when GetBatchJobItems fails, the run calls no provider and writes no
\* item; its next step writes the job failed with 0 and returns the error.  If
\* that write succeeds the job (an existing row) is failed, and if it fails the job row is left
\* as it was (processing, when a worker runs a job nobody processes directly) and
\* the run is over:
\* the id is not put back on the channel.
C25_FetchFails ==
    [][\A p \in Procs :
          /\ (pc[p] = "getItems" /\ pc'[p] = "failFetch") =>
                /\ jobs' = jobs /\ items' = items
                /\ itemHist' = itemHist
                /\ fetched' = fetched /\ fetchCount' = fetchCount
          /\ (pc[p] = "failFetch" /\ pc'[p] # "failFetch" /\ jobID[p] \in DOMAIN jobs) =>
                /\ pc'[p] = Returned(p)
                /\ p \in Direct => processRet' = "err"
                /\ items' = items
                /\ itemHist' = itemHist
                /\ fetched' = fetched /\ fetchCount' = fetchCount
                /\ jobChan' = jobChan /\ sendCount' = sendCount
                /\ \/ /\ jobs'[jobID[p]].status = "failed"
                      /\ jobs'[jobID[p]].completed_items = 0
                      /\ stuck' = stuck
                   \/ /\ jobs' = jobs
                      /\ jobID[p] \in stuck'
                      /\ (p \in Workers /\ jobID[p] \notin directCalled) =>
                              jobs'[jobID[p]].status = "processing"]_vars

\* before Start(), a direct ProcessJob call on a job with a pending item failed
\* to fetch the items: the error is returned, the job is failed, the item untouched
C25_Witness ==
    /\ ~started
    /\ processRet = "err"
    /\ directCalled = {1}
    /\ storeErr = {1}
    /\ stuck = {}
    /\ fetchCount[1] = 0
    /\ 1 \in DOMAIN jobs
    /\ jobs[1].status = "failed"
    /\ jobs[1].completed_items = 0
    /\ ItemsOf(items, 1) # {}
    /\ \A i \in ItemsOf(items, 1) : items[i].status = "pending"

\* the same run when the follow-up write fails too: the job is left processing
C25_StuckWitness ==
    /\ ~started
    /\ processRet = "err"
    /\ directCalled = {1}
    /\ stuck = {1}
    /\ fetchCount[1] = 0
    /\ 1 \in DOMAIN jobs
    /\ jobs[1].status = "processing"

\* the bucket of client k was last refilled before the retention window
Stale(k) == buckets[k].lastRefill < now - cleanup

\* C26: a sweep (lastGC moves) happens only in the locked part of Allow and only
\* when more than cleanup has passed since lastGC.  It removes exactly the stale
\* buckets: another client's bucket is gone iff it was stale and is otherwise
\* untouched; the caller's own bucket is replaced by a full one iff it was
\* stale and is otherwise refilled from its kept token count.  Without a sweep
\* no bucket is removed.
C26_SweepRemovesExactlyStale ==
    [][/\ lastGC' # lastGC =>
            /\ now - lastGC > cleanup
            /\ lastGC' = now
            /\ \E c \in Callers : callers[c].pc = "waiting" /\ callers'[c].pc = "check"
       /\ \A k \in DOMAIN buckets :
            LET swept == lastGC' # lastGC /\ Stale(k)
                mine == \E c \in Callers :
                          /\ callers[c].pc = "waiting" /\ callers'[c].pc = "check"
                          /\ callers[c].ip = k
            IN  IF mine
                THEN /\ k \in DOMAIN buckets'
                     /\ buckets'[k] =
                          IF swept THEN [tokens |-> burst * Unit, lastRefill |-> now]
                          ELSE [tokens |-> Min(burst * Unit,
                                    buckets[k].tokens + (now - buckets[k].lastRefill) * rps),
                                lastRefill |-> now]
                ELSE IF swept THEN k \notin DOMAIN buckets'
                ELSE /\ k \in DOMAIN buckets'
                     /\ buckets'[k].lastRefill = buckets[k].lastRefill
                     /\ \/ buckets'[k].tokens = buckets[k].tokens
                        \/ \E c \in Callers :
                             /\ callers[c].pc = "return" /\ callers[c].ip = k
                             /\ callers'[c].pc = "idle"]_vars

\* a call of 10.0.0.1 swept at time lastGC: the bucket of 10.0.0.2, which had
\* called before, is gone, and the caller's own bucket, refilled within the
\* window by its earlier call, was kept with fewer than burst tokens
C26_Witness ==
    /\ lastGC > 0
    /\ allowLog["10.0.0.2"] # <<>>
    /\ "10.0.0.2" \notin DOMAIN buckets
    /\ Len(allowLog["10.0.0.1"]) = 2
    /\ allowLog["10.0.0.1"][1].t < lastGC
    /\ allowLog["10.0.0.1"][2].t = lastGC
    /\ allowLog["10.0.0.1"][2].had < burst * Unit

\* C27: if the workers are started, Stop() is never called and no store call
\* returns an error, every job whose id was sent on the channel is eventually
\* completed or failed.
C27_AcceptedJobsFinish ==
    (<>started /\ []~stopped /\ [](storeErr = {})) =>
        \A j \in JobIds :
            (sendCount[j] > 0) ~> (j \in DOMAIN jobs /\ jobs[j].status \in Terminal)

\* the same, in runs where the process does not panic
C27_FinishUnlessPanic ==
    (<>started /\ []~stopped /\ [](storeErr = {}) /\ []~crashed) =>
        \A j \in JobIds :
            (sendCount[j] > 0) ~> (j \in DOMAIN jobs /\ jobs[j].status \in Terminal)

\* C28: when a job is completed, each item its run fetched is completed or failed
C28_CompletedJobItemsSettled ==
    \A j \in DOMAIN jobs :
        jobs[j].status = "completed" =>
            \A i \in fetched[j] : items[i].status \in {"completed", "failed"}

\* C29: for each client and each stretch of its calls made within T clock ticks,
\* the calls that returned true are at most burst + rate * T (in token units:
\* Granted * Unit <= burst * Unit + rps * T).
C29_GrantsWithinRate ==
    \A ip \in Clients :
        \A i \in DOMAIN allowLog[ip] : \A j \in DOMAIN allowLog[ip] :
            i <= j =>
                Granted(ip, i, j) * Unit
                    <= burst * Unit + rps * (allowLog[ip][j].t - allowLog[ip][i].t)

\* C30: a terminal job's completed_items is the number of its item rows whose
\* status is completed (jobs are run by the worker loops), and what
\* GetBatchJobStatus counts for a job it read as terminal is the stored counter.
C30_CounterMatchesItems ==
    /\ [](\A j \in DOMAIN jobs :
            jobs[j].status \in Terminal =>
                jobs[j].completed_items = CountCompleted(items, ItemsOf(items, j)))
    /\ [][\A r \in Readers :
            (/\ pc[r] = "statusItems" /\ pc'[r] = "idle"
             /\ ~statusRet'.err
             /\ rjob.status \in Terminal) =>
                statusRet'.completed = rjob.completed_items]_vars

\* a completed job with one item completed and one failed has completed_items 1,
\* and GetBatchJobStatus has reported 1 of 2 for it
C30_Witness ==
    /\ 1 \in DOMAIN jobs
    /\ jobs[1].status = "completed"
    /\ jobs[1].completed_items = 1
    /\ Cardinality(ItemsOf(items, 1)) = 2
    /\ \E i \in ItemsOf(items, 1) : items[i].status = "failed"
    /\ ~statusRet.err
    /\ statusRet.status = "completed"
    /\ statusRet.completed = 1
    /\ statusRet.total = 2

====
